---- MODULE Spec2Model ----
(***************************************************************************)
(* Document-number sequence allocator (DCSequenceManager) and its four     *)
(* sequence stores: Google Sheets (RemoteTabularStore), Supabase           *)
(* (RemoteRPCStore), GitHub (VersionControlledFileStore) and the local     *)
(* JSON file (LocalFileStore).                                             *)
(*                                                                         *)
(* Strings are sequences of one-character strings, so that upper(),        *)
(* lower(), split('_') and the :06d format are computed and not assumed.   *)
(* Python's None and '' are both the empty sequence: every place the code  *)
(* looks at a hub value tests only its truthiness.                         *)
(***************************************************************************)
EXTENDS Integers, Sequences, FiniteSets, TLC

(* ------------------------------ bounds -------------------------------- *)
\* number of steps of one run: calls made and restarts of the process
MaxOps == 2

(* --------------------------- program constants ------------------------ *)
\* starting value of a sequence the store does not hold
Floor == 300
\* retry_count of GoogleSheetsSequenceGenerator.get_next_sequence
GSRetryCount == 3
\* retry_count of GitHubSequenceGenerator.get_next_sequence
GHRetryCount == 5
\* width of the sequence number in a DC number (the :06d format)
SeqDigits == 6
\* the documented limit on the length of a DC number
MaxDCLen == 16
\* history entries kept per sequence in the GitHub file
HistoryKeep == 10
\* an empty cell of the worksheet (row[1] == '')
EmptyCell == -1

(* ------------------------------ strings ------------------------------- *)
LowerChars == <<"a","b","c","d","e","f","g","h","i","j","k","l","m",
                "n","o","p","q","r","s","t","u","v","w","x","y","z">>
UpperChars == <<"A","B","C","D","E","F","G","H","I","J","K","L","M",
                "N","O","P","Q","R","S","T","U","V","W","X","Y","Z">>
DigitChars == <<"0","1","2","3","4","5","6","7","8","9">>

OtherChars == {"_", "/", "-", " "}
Chars == {LowerChars[i] : i \in 1..26} \cup {UpperChars[i] : i \in 1..26}
         \cup {DigitChars[i] : i \in 1..10} \cup OtherChars

UpperChar ==
    [c \in Chars |->
       IF \E i \in 1..26 : LowerChars[i] = c
       THEN UpperChars[CHOOSE i \in 1..26 : LowerChars[i] = c]
       ELSE c]

LowerChar ==
    [c \in Chars |->
       IF \E i \in 1..26 : UpperChars[i] = c
       THEN LowerChars[CHOOSE i \in 1..26 : UpperChars[i] = c]
       ELSE c]

\* str.upper()
Upper(s) == [i \in 1..Len(s) |-> UpperChar[s[i]]]

\* str.lower()
Lower(s) == [i \in 1..Len(s) |-> LowerChar[s[i]]]

RECURSIVE Digits(_)
\* the decimal digits of a natural number, most significant first
Digits(n) == IF n < 10 THEN <<DigitChars[n + 1]>>
             ELSE Digits(n \div 10) \o <<DigitChars[(n % 10) + 1]>>

RECURSIVE Zeros(_)
Zeros(n) == IF n <= 0 THEN <<>> ELSE <<"0">> \o Zeros(n - 1)

\* a format one digit wider than the code's
Pad6Wide(n) == Zeros(SeqDigits + 1 - Len(Digits(n))) \o Digits(n)
\* f"{n:06d}": at least six digits, padded on the left with zeros
Pad6(n) == Zeros(SeqDigits - Len(Digits(n))) \o Digits(n)

(* ------------------------------ names --------------------------------- *)
AMOLAKCHAND == <<"A","M","O","L","A","K","C","H","A","N","D">>
BODEGA      == <<"B","O","D","E","G","A">>
SOURCINGBEE == <<"S","O","U","R","C","I","N","G","B","E","E">>
BodegaMixed == <<"B","o","d","e","g","a">>
ACME        == <<"A","C","M","E">>

SutlejGomati == <<"S","u","t","l","e","j","/","G","o","m","a","t","i">>
Arihant      == <<"A","r","i","h","a","n","t">>
Vikrant      == <<"V","i","k","r","a","n","t">>
FCHyderabad  == <<"F","C","-","H","y","d","e","r","a","b","a","d">>
Hyderabad    == <<"H","y","d","e","r","a","b","a","d">>
Depot        == <<"D","e","p","o","t">>

HYD == <<"H","Y","D">>
XX  == <<"X","X">>
DC  == <<"D","C">>
SeqSuffix == <<"_","s","e","q">>

NoHub     == <<>>
HYD_NCH   == <<"H","Y","D","_","N","C","H">>
hyd_abcd  == <<"h","y","d","_","a","b","c","d">>

\* self.company_codes
company_codes(name) ==
    CASE name = AMOLAKCHAND -> <<"A","K">>
      [] name = BODEGA      -> <<"B","D">>
      [] name = SOURCINGBEE -> <<"S","B">>
      [] OTHER              -> XX

\* self.facility_codes
facility_codes(name) ==
    CASE name = SutlejGomati -> <<"S","G">>
      [] name = Arihant      -> <<"A","H">>
      [] name = Vikrant      -> <<"A","H">>
      [] name = FCHyderabad  -> HYD
      [] name = Hyderabad    -> HYD
      [] OTHER               -> XX

\* self.telangana_hubs
telangana_hubs == { <<"B","V","G">>, <<"S","G","R">>, <<"B","A","L">>,
                    <<"K","M","P">>, <<"N","C","H">>, <<"S","A","N">> }

ConfiguredCompanyCodes  == { <<"A","K">>, <<"B","D">>, <<"S","B">> }
ConfiguredFacilityCodes == { <<"A","H">>, <<"S","G">>, HYD }

\* the part of s after its last '_' (parts[-1] of s.split('_'))
\* the part after the first '_': split('_')[1] joined with what follows
AfterFirstSep(s) ==
    LET idx   == { i \in 1..Len(s) : s[i] = "_" }
        first == CHOOSE i \in idx : \A j \in idx : i <= j
    IN  SubSeq(s, first + 1, Len(s))

\* hub_value.split('_')[-1]
AfterLastSep(s) ==
    LET idx == { i \in 1..Len(s) : s[i] = "_" }
        last == CHOOSE i \in idx : \A j \in idx : j <= i
    IN  SubSeq(s, last + 1, Len(s))

\* DCSequenceManager._extract_hub_code
ExtractHubCode(hub_value) ==
    IF hub_value = <<>> THEN <<>>
    ELSE IF \E i \in 1..Len(hub_value) : hub_value[i] = "_"
         THEN Upper(AfterLastSep(hub_value))
         ELSE <<>>

\* the prefix with the company name looked up as given, without upper()
PrefixCaseSensitive(company_name, facility_name, hub_value) ==
    LET company_code  == company_codes(company_name)
        facility_code == facility_codes(facility_name)
        hub_code      == IF facility_code = HYD /\ hub_value # <<>>
                         THEN ExtractHubCode(hub_value) ELSE <<>>
    IN  company_code \o DC \o facility_code \o hub_code

\* the prefix both generate_dc_number and reserve_dc_number build
Prefix(company_name, facility_name, hub_value) ==
    LET company_code  == company_codes(Upper(company_name))
        facility_code == facility_codes(facility_name)
        hub_code      == IF facility_code = HYD /\ hub_value # <<>>
                         THEN ExtractHubCode(hub_value) ELSE <<>>
    IN  company_code \o DC \o facility_code \o hub_code

\* sequence_name = f"{prefix.lower()}_seq"
SequenceName(prefix) == Lower(prefix) \o SeqSuffix

\* f"{prefix}{next_seq:06d}"
FormatDC(prefix, next_seq) == prefix \o Pad6(next_seq)

(* ------------------------------- maps --------------------------------- *)
\* dict.get(k, d)
Get(m, k, d) == IF k \in DOMAIN m THEN m[k] ELSE d

\* m[k] = v
Put(m, k, v) == [x \in (DOMAIN m) \cup {k} |-> IF x = k THEN v ELSE m[x]]

EmptyMap == [x \in {} |-> 0]

akdcah_seq     == <<"a","k","d","c","a","h","_","s","e","q">>
akdcsg_seq     == <<"a","k","d","c","s","g","_","s","e","q">>
bddcah_seq     == <<"b","d","d","c","a","h","_","s","e","q">>
bddcsg_seq     == <<"b","d","d","c","s","g","_","s","e","q">>
sbdcah_seq     == <<"s","b","d","c","a","h","_","s","e","q">>
sbdcsg_seq     == <<"s","b","d","c","s","g","_","s","e","q">>
akdchydnch_seq == <<"a","k","d","c","h","y","d","n","c","h","_","s","e","q">>
akdchydbal_seq == <<"a","k","d","c","h","y","d","b","a","l","_","s","e","q">>
akdchydbvg_seq == <<"a","k","d","c","h","y","d","b","v","g","_","s","e","q">>

(* ------------------------------- state -------------------------------- *)
VARIABLES
    phase,        \* "boot": no manager yet; "run": constructed; "crashed": __init__ raised
    generator,    \* self.generator: "none", "GoogleSheets", "Supabase" or "Local"
    probe,        \* what each candidate did during __init__, and whether the
                  \* worksheet read of the Google Sheets connection test failed
    wsExists,     \* the spreadsheet has a worksheet named 'Sequences'
    sheet,        \* worksheet.get_all_values(): the rows of the worksheet
    sbTable,      \* the sequences held by the Supabase database
    ghFile,       \* sequence_data.json in the GitHub repository: its content
                  \* (seqs, hist), its sha and the commits made to it (log)
    localFile,    \* dc_sequence_state_v2.json on disk
    localSeq,     \* LocalSequenceGenerator.sequences (in memory)
    reserved_numbers, \* DCSequenceManager.reserved_numbers
    last,         \* the last call made and what it returned
    issued,       \* DC numbers returned by this manager since it was constructed
    lastRet,      \* <<backend, key>> -> last value get_next_sequence returned
    touched,      \* <<backend, key>> pairs get_next_sequence was called on
    ops,          \* steps taken so far: calls and restarts
    restarts,     \* restarts so far
    shared,       \* the backend concurrent callers share, "none" with one caller
    callers,      \* caller -> its get_next_sequence call in progress
    calls,        \* get_next_sequence calls started by concurrent callers
    succ,         \* key -> get_next_sequence calls of concurrent callers that returned
    rets          \* <<key, value>> pairs returned to concurrent callers

stores == <<wsExists, sheet, sbTable, ghFile, localFile, localSeq>>
conc   == <<shared, callers, calls, succ, rets>>
vars   == <<phase, generator, probe, wsExists, sheet, sbTable, ghFile,
            localFile, localSeq, reserved_numbers, last, issued, lastRet,
            touched, ops, restarts, shared, callers, calls, succ, rets>>

(* --------------------------- Google Sheets ---------------------------- *)
HeaderName == <<"S","e","q","u","e","n","c","e"," ","N","a","m","e">>
HeaderRow  == [name |-> HeaderName, val |-> EmptyCell]
BlankRow   == [name |-> <<>>, val |-> EmptyCell]

\* worksheet.update of one row: the sheet grows when the row is below its end
RECURSIVE WriteRow(_, _, _)
WriteRow(rows, idx, row) ==
    IF idx <= Len(rows) THEN [rows EXCEPT ![idx] = row]
    ELSE IF idx = Len(rows) + 1 THEN Append(rows, row)
    ELSE WriteRow(Append(rows, BlankRow), idx, row)

\* "for idx, row in enumerate(all_values[1:], start=2)": the first row after
\* the header that holds sequence_name, 0 when there is none
GSFind(all_values, sequence_name) ==
    LET hits == { i \in 2..Len(all_values) : all_values[i].name = sequence_name }
    IN  IF hits = {} THEN 0 ELSE CHOOSE i \in hits : \A j \in hits : i <= j

\* int(row[1]) if row[1] else 300
GSCell(row) == IF row.val # EmptyCell THEN row.val ELSE Floor

\* a scan that starts a sequence the rows do not hold at 0
GSScanFromZero(all_values, sequence_name) ==
    LET row_index == GSFind(all_values, sequence_name)
    IN  IF row_index # 0 THEN GSCell(all_values[row_index]) ELSE 0

\* the value get_current_sequence_value computes from the rows it read
GSScan(all_values, sequence_name) ==
    LET row_index == GSFind(all_values, sequence_name)
    IN  IF row_index # 0 THEN GSCell(all_values[row_index]) ELSE Floor

\* what one pass of the loop body of get_next_sequence decides from the rows
\* it read: the row it found (0 for none), the value and the row of an insert
GSPlan(all_values, sequence_name) ==
    [row_index  |-> GSFind(all_values, sequence_name),
     next_value |-> GSScan(all_values, sequence_name) + 1,
     next_row   |-> Len(all_values) + 1]

\* the worksheet.update of that pass on the rows the worksheet holds by then:
\* B{row_index}:D{row_index} of a row found, A{next_row}:D{next_row} otherwise
GSApply(rows, plan, sequence_name) ==
    IF plan.row_index # 0
    THEN WriteRow(rows, plan.row_index,
                  [(IF plan.row_index <= Len(rows) THEN rows[plan.row_index]
                    ELSE BlankRow) EXCEPT !.val = plan.next_value])
    ELSE WriteRow(rows, plan.next_row,
                  [name |-> sequence_name, val |-> plan.next_value])

\* one pass of the loop body of get_next_sequence with no exception and no
\* other writer
GSAttempt(all_values, sequence_name) ==
    LET plan == GSPlan(all_values, sequence_name)
    IN  [val   |-> plan.next_value,
         sheet |-> GSApply(all_values, plan, sequence_name)]

\* GoogleSheetsSequenceGenerator.get_next_sequence; fails = the number of
\* leading attempts on which a worksheet call raised
GSNext(all_values, sequence_name, fails) ==
    IF fails >= GSRetryCount
    THEN [ok |-> FALSE, val |-> 0, attempts |-> GSRetryCount, sheet |-> all_values]
    ELSE LET a == GSAttempt(all_values, sequence_name)
         IN  [ok |-> TRUE, val |-> a.val, attempts |-> fails + 1, sheet |-> a.sheet]

\* GoogleSheetsSequenceGenerator.get_current_sequence_value: never raises
GSCurrent(all_values, sequence_name, readFails) ==
    IF readFails THEN [ok |-> TRUE, val |-> Floor]
    ELSE [ok |-> TRUE, val |-> GSScan(all_values, sequence_name)]

(* ------------------------------ Supabase ------------------------------ *)
\* the stored procedure get_next_seq: increments inside the database
SBProcNext(table, seq_name) == Put(table, seq_name, Get(table, seq_name, Floor) + 1)

\* the stored procedure get_current_seq
SBProcCurrent(table, seq_name) == Get(table, seq_name, Floor)

\* SupabaseSequenceGenerator.get_next_sequence: one RPC, no retry
SBNext(table, sequence_name, fails) ==
    IF fails > 0
    THEN [ok |-> FALSE, val |-> 0, attempts |-> 1, table |-> table]
    ELSE LET t == SBProcNext(table, sequence_name)
         IN  [ok |-> TRUE, val |-> t[sequence_name], attempts |-> 1, table |-> t]

\* SupabaseSequenceGenerator.get_current_sequence_value: raises on error
SBCurrent(table, sequence_name, readFails) ==
    IF readFails THEN [ok |-> FALSE, val |-> 0]
    ELSE [ok |-> TRUE, val |-> SBProcCurrent(table, sequence_name)]

(* ------------------------------- GitHub ------------------------------- *)
\* a slice that keeps the first n entries: [:n]
FirstN(s, n) == IF Len(s) <= n THEN s ELSE SubSeq(s, 1, n)

\* content[f'{sequence_name}_history'][-10:]
LastN(s, n) == IF Len(s) <= n THEN s ELSE SubSeq(s, Len(s) - n + 1, Len(s))

\* one pass of the loop body of get_next_sequence whose commit is accepted;
\* log: the "Increment sequence_name: current -> next" commits of the branch
GHAttempt(file, sequence_name) ==
    LET next_value == Get(file.seqs, sequence_name, Floor) + 1
    IN  [file EXCEPT
           !.seqs = Put(file.seqs, sequence_name, next_value),
           !.hist = Put(file.hist, sequence_name,
                        LastN(Append(Get(file.hist, sequence_name, <<>>), next_value),
                              HistoryKeep)),
           !.log  = Put(file.log, sequence_name,
                        Append(Get(file.log, sequence_name, <<>>), next_value)),
           !.sha  = file.sha + 1]

\* GitHubSequenceGenerator.get_next_sequence; fails = the number of leading
\* attempts on which the fetch raised or the commit was refused
GHNext(file, sequence_name, fails) ==
    IF ~file.exists \/ fails >= GHRetryCount
    THEN [ok |-> FALSE, val |-> 0, attempts |-> GHRetryCount, file |-> file]
    ELSE LET f == GHAttempt(file, sequence_name)
         IN  [ok |-> TRUE, val |-> f.seqs[sequence_name],
              attempts |-> fails + 1, file |-> f]

\* GitHubSequenceGenerator.get_current_sequence_value: never raises
GHCurrent(file, sequence_name, readFails) ==
    IF readFails \/ ~file.exists THEN [ok |-> TRUE, val |-> Floor]
    ELSE [ok |-> TRUE, val |-> Get(file.seqs, sequence_name, Floor)]

\* the content _initialize_sequence_file commits
GHInitialSeqs ==
    [k \in {akdcah_seq, akdcsg_seq, akdchydnch_seq, akdchydbal_seq, akdchydbvg_seq,
            bddcah_seq, bddcsg_seq, sbdcah_seq, sbdcsg_seq} |-> Floor]

(* ----------------------------- local file ----------------------------- *)
\* the dictionary _load_sequences returns when the file does not exist
LocalDefaults ==
    [k \in {akdcah_seq, akdcsg_seq, bddcah_seq, bddcsg_seq, sbdcah_seq, sbdcsg_seq}
       |-> Floor]

\* LocalSequenceGenerator._load_sequences: json.load raises on a file that
\* is not valid JSON, and only FileNotFoundError is caught
LoadSequences(file) ==
    CASE file.st = "absent"  -> [ok |-> TRUE,  seqs |-> LocalDefaults]
      [] file.st = "valid"   -> [ok |-> TRUE,  seqs |-> file.seqs]
      [] file.st = "corrupt" -> [ok |-> FALSE, seqs |-> EmptyMap]

\* LocalSequenceGenerator.get_next_sequence. save = "ok"; "openfail": open()
\* raised and the file is as it was; "dumpfail": the file was truncated by
\* open(.., 'w') and json.dump raised before writing it out
LocalNext(seqs, file, sequence_name, save) ==
    LET s == Put(seqs, sequence_name, Get(seqs, sequence_name, Floor) + 1)
    IN  CASE save = "ok" ->
               [ok |-> TRUE, val |-> s[sequence_name], attempts |-> 1, seqs |-> s,
                file |-> [st |-> "valid", seqs |-> s]]
          [] save = "openfail" ->
               [ok |-> FALSE, val |-> 0, attempts |-> 1, seqs |-> s, file |-> file]
          [] save = "dumpfail" ->
               [ok |-> FALSE, val |-> 0, attempts |-> 1, seqs |-> s,
                file |-> [st |-> "corrupt", seqs |-> EmptyMap]]

(* ------------------------------ inputs -------------------------------- *)
\* the (company_name, facility_name, hub_value) arguments of the calls made
Requests ==
    { <<BODEGA, SutlejGomati, NoHub>>,
      <<BodegaMixed, SutlejGomati, HYD_NCH>>,
      <<AMOLAKCHAND, Arihant, NoHub>>,
      <<AMOLAKCHAND, FCHyderabad, HYD_NCH>>,
      <<AMOLAKCHAND, FCHyderabad, hyd_abcd>>,
      <<ACME, Depot, NoHub>> }

xxdcxx_seq == <<"x","x","d","c","x","x","_","s","e","q">>

\* sequence names the read-only calls and the GitHub path are given
QueryKeys == {akdcah_seq, xxdcxx_seq}

\* what can go wrong in one get_next_sequence call of a backend: for the two
\* retrying backends the number of leading attempts that fail (none, all but
\* the last, all); for Supabase whether the RPC fails; for the local file how
\* the save ends (see SaveOutcome)
Faults(b) ==
    CASE b = "GoogleSheets" -> {0, GSRetryCount - 1, GSRetryCount}
      [] b = "GitHub"       -> {0, GHRetryCount - 1, GHRetryCount}
      [] b = "Supabase"     -> 0..1
      [] b = "Local"        -> 0..2
      [] OTHER              -> {0}

SaveOutcome(f) == CASE f = 0 -> "ok" [] f = 1 -> "openfail" [] OTHER -> "dumpfail"

(* --------------------------- the adapters ----------------------------- *)
\* backend.get_next_sequence(sequence_name): result and every store after it
NextOn(b, sequence_name, f) ==
    LET same == [backend |-> b, sheet |-> sheet, sbTable |-> sbTable,
                 ghFile |-> ghFile, localSeq |-> localSeq, localFile |-> localFile]
    IN  CASE b = "GoogleSheets" ->
               LET r == GSNext(sheet, sequence_name, f)
               IN  [same EXCEPT !.sheet = r.sheet] @@
                   [ok |-> r.ok, val |-> r.val, attempts |-> r.attempts]
          [] b = "Supabase" ->
               LET r == SBNext(sbTable, sequence_name, f)
               IN  [same EXCEPT !.sbTable = r.table] @@
                   [ok |-> r.ok, val |-> r.val, attempts |-> r.attempts]
          [] b = "GitHub" ->
               LET r == GHNext(ghFile, sequence_name, f)
               IN  [same EXCEPT !.ghFile = r.file] @@
                   [ok |-> r.ok, val |-> r.val, attempts |-> r.attempts]
          [] b = "Local" ->
               LET r == LocalNext(localSeq, localFile, sequence_name, SaveOutcome(f))
               IN  [same EXCEPT !.localSeq = r.seqs, !.localFile = r.file] @@
                   [ok |-> r.ok, val |-> r.val, attempts |-> r.attempts]

\* backend.get_current_sequence_value(sequence_name)
CurrentOn(b, sequence_name, readFails) ==
    CASE b = "GoogleSheets" -> GSCurrent(sheet, sequence_name, readFails)
      [] b = "Supabase"     -> SBCurrent(sbTable, sequence_name, readFails)
      [] b = "GitHub"       -> GHCurrent(ghFile, sequence_name, readFails)

\* DCSequenceManager.get_current_sequence; sequences is the dictionary the
\* local generator holds at the time of the call
get_current_sequence(sequences, sequence_name, readFails) ==
    IF generator = "Local" THEN Get(sequences, sequence_name, Floor)
    ELSE LET r == CurrentOn(generator, sequence_name, readFails)
         IN  IF r.ok THEN r.val ELSE Floor

\* the store of backend b holds sequence_name
Present(b, sequence_name) ==
    CASE b = "GoogleSheets" -> \E i \in 1..Len(sheet) : sheet[i].name = sequence_name
      [] b = "Supabase"     -> sequence_name \in DOMAIN sbTable
      [] b = "GitHub"       -> sequence_name \in DOMAIN ghFile.seqs
      [] b = "Local"        -> \/ sequence_name \in DOMAIN localSeq
                               \/ /\ localFile.st = "valid"
                                  /\ sequence_name \in DOMAIN localFile.seqs

\* neither the store of b nor any earlier call on b has seen sequence_name
Unseen(b, sequence_name) ==
    ~Present(b, sequence_name) /\ <<b, sequence_name>> \notin touched

(* --------------------------- observations ----------------------------- *)
NoLast ==
    [op |-> "none", backend |-> "none", req |-> <<>>, key |-> <<>>, ok |-> TRUE, nv |-> 0,
     nvOk |-> FALSE, val |-> 0, dc |-> <<>>, prev |-> 0, fresh |-> FALSE,
     dup |-> FALSE, attempts |-> 0, status |-> "none", down |-> FALSE]

\* what a get_next_sequence call on b leaves in the observation variables
NextObs(op, b, sequence_name, r) ==
    [NoLast EXCEPT !.op = op, !.backend = r.backend, !.key = sequence_name,
                   !.ok = r.ok, !.nv = 1, !.nvOk = r.ok, !.val = r.val,
                   !.prev = Get(lastRet, <<b, sequence_name>>, 0),
                   !.fresh = Unseen(b, sequence_name),
                   !.attempts = r.attempts]

Store(r) ==
    /\ sheet' = r.sheet
    /\ sbTable' = r.sbTable
    /\ ghFile' = r.ghFile
    /\ localSeq' = r.localSeq
    /\ localFile' = r.localFile
    /\ UNCHANGED wsExists

Track(b, sequence_name, r) ==
    /\ touched' = touched \cup {<<b, sequence_name>>}
    /\ lastRet' = IF r.ok THEN Put(lastRet, <<b, sequence_name>>, r.val) ELSE lastRet

(* ---------------------------- construction --------------------------- *)
\* what the Google Sheets candidate does in __init__: gsInit = "fail" when the
\* constructor raises before it reaches the worksheet, "headerfail" when
\* add_worksheet succeeded and the update of A1:D1 raised
GSOutcome(gsInit, rows, readFails) ==
    IF gsInit # "ok" THEN "construct_failed"
    ELSE IF GSCurrent(rows, akdcah_seq, readFails).ok THEN "ok" ELSE "probe_failed"

SBOutcome(sbInit, readFails) ==
    IF sbInit # "ok" THEN "construct_failed"
    ELSE IF SBCurrent(sbTable, akdcah_seq, readFails).ok THEN "ok" ELSE "probe_failed"

\* a chain without the "raise test_error" of the connection tests
SelectIgnoresProbe(gs, sb, lo) ==
    IF gs \in {"ok", "probe_failed"} THEN "GoogleSheets"
    ELSE IF sb \in {"ok", "probe_failed"} THEN "Supabase"
    ELSE IF lo = "ok" THEN "Local" ELSE "none"
\* the try/except chain of DCSequenceManager.__init__
Select(gs, sb, lo) ==
    IF gs = "ok" THEN "GoogleSheets"
    ELSE IF sb = "ok" THEN "Supabase"
    ELSE IF lo = "ok" THEN "Local" ELSE "none"

Construct ==
    /\ phase = "boot"
    /\ \E gsInit \in {"ok", "fail", "headerfail"}, sbInit \in {"ok", "fail"},
          gsRead \in BOOLEAN, sbRead \in BOOLEAN :
         /\ gsInit = "headerfail" => ~wsExists
         /\ gsInit # "ok" => ~gsRead
         /\ (gsInit = "ok" \/ sbInit # "ok") => ~sbRead
         /\ LET rows == IF gsInit = "ok" /\ ~wsExists THEN <<HeaderRow>> ELSE sheet
                gs   == GSOutcome(gsInit, rows, gsRead)
                sb   == IF gs = "ok" THEN "skipped" ELSE SBOutcome(sbInit, sbRead)
                ld   == LoadSequences(localFile)
                lo   == IF gs = "ok" \/ sb = "ok" THEN "skipped"
                        ELSE IF ld.ok THEN "ok" ELSE "construct_failed"
                sel  == Select(gs, sb, lo)
            IN  /\ sheet' = rows
                /\ wsExists' = (wsExists \/ gsInit \in {"ok", "headerfail"})
                /\ probe' = [gs |-> gs, sb |-> sb, local |-> lo,
                             gsReadFailed |-> gsRead]
                /\ generator' = sel
                /\ phase' = IF sel = "none" THEN "crashed" ELSE "run"
                /\ localSeq' = IF sel = "Local" THEN ld.seqs ELSE EmptyMap
    /\ last' = [NoLast EXCEPT !.op = "construct"]
    /\ reserved_numbers' = EmptyMap
    /\ UNCHANGED <<sbTable, ghFile, localFile, issued, lastRet, touched, ops, restarts, conc>>

\* the process ends and a new one starts: nothing in memory survives
Restart ==
    /\ phase \in {"run", "crashed"}
    /\ ops < MaxOps
    /\ ops' = ops + 1
    /\ restarts' = restarts + 1
    /\ phase' = "boot"
    /\ generator' = "none"
    /\ probe' = [gs |-> "none", sb |-> "none", local |-> "none",
                 gsReadFailed |-> FALSE]
    /\ localSeq' = EmptyMap
    /\ reserved_numbers' = EmptyMap
    /\ issued' = {}
    /\ last' = [NoLast EXCEPT !.op = "restart"]
    /\ UNCHANGED <<wsExists, sheet, sbTable, ghFile, localFile, lastRet, touched, conc>>

(* ----------------------------- operations ----------------------------- *)
\* DCSequenceManager.generate_dc_number: an exception of get_next_sequence
\* is not caught
generate_dc_number(company_name, facility_name, hub_value, f) ==
    LET prefix        == Prefix(company_name, facility_name, hub_value)
        sequence_name == SequenceName(prefix)
        r             == NextOn(generator, sequence_name, f)
    IN  [raised |-> ~r.ok, key |-> sequence_name, r |-> r,
         val |-> r.val,
         dc |-> IF r.ok THEN FormatDC(prefix, r.val) ELSE <<>>]

\* DCSequenceManager.reserve_dc_number: on an exception of get_next_sequence
\* it returns current + 1, which no store holds
reserve_dc_number(company_name, facility_name, hub_value, f, readFails) ==
    LET prefix        == Prefix(company_name, facility_name, hub_value)
        sequence_name == SequenceName(prefix)
        r             == NextOn(generator, sequence_name, f)
        current_seq   == get_current_sequence(r.localSeq, sequence_name, readFails)
        next_seq      == IF r.ok THEN r.val ELSE current_seq + 1
    IN  [raised |-> FALSE, key |-> sequence_name, r |-> r,
         val |-> next_seq,
         dc |-> FormatDC(prefix, next_seq)]

\* DCSequenceManager.generate_dc_number as a call
Generate ==
    /\ phase = "run" /\ ops < MaxOps
    /\ \E t \in Requests, f \in Faults(generator) :
         \E g \in {generate_dc_number(t[1], t[2], t[3], f)} :
             /\ Store(g.r)
             /\ Track(generator, g.key, g.r)
             /\ last' = [NextObs("generate", generator, g.key, g.r) EXCEPT
                           !.req = t, !.ok = ~g.raised, !.val = g.val, !.dc = g.dc,
                           !.dup = (~g.raised /\ g.dc \in issued)]
             /\ issued' = IF g.raised THEN issued ELSE issued \cup {g.dc}
    /\ ops' = ops + 1
    /\ UNCHANGED <<phase, generator, probe, reserved_numbers, restarts, conc>>

\* a reserve call with a hot swap: a failed get_next_sequence replaces the
\* backend by the local one
ReserveWithFailover ==
    /\ phase = "run" /\ ops < MaxOps
    /\ \E t \in Requests, f \in Faults(generator), readFails \in BOOLEAN :
         /\ f = 0 => ~readFails
         /\ \E g \in {reserve_dc_number(t[1], t[2], t[3], f, readFails)} :
                /\ Store(g.r)
                /\ Track(generator, g.key, g.r)
                /\ last' = [NextObs("reserve", generator, g.key, g.r) EXCEPT
                              !.req = t, !.ok = ~g.raised, !.val = g.val, !.dc = g.dc,
                              !.dup = (g.dc \in issued)]
                /\ issued' = issued \cup {g.dc}
                /\ generator' = IF g.r.ok THEN generator ELSE "Local"
    /\ ops' = ops + 1
    /\ UNCHANGED <<phase, probe, reserved_numbers, restarts, conc>>

\* a reserve call that enters the number in reserved_numbers
ReserveRecording ==
    /\ phase = "run" /\ ops < MaxOps
    /\ \E t \in Requests, f \in Faults(generator), readFails \in BOOLEAN :
         /\ f = 0 => ~readFails
         /\ \E g \in {reserve_dc_number(t[1], t[2], t[3], f, readFails)} :
                /\ Store(g.r)
                /\ Track(generator, g.key, g.r)
                /\ last' = [NextObs("reserve", generator, g.key, g.r) EXCEPT
                              !.req = t, !.ok = ~g.raised, !.val = g.val, !.dc = g.dc,
                              !.dup = (g.dc \in issued)]
                /\ issued' = issued \cup {g.dc}
                /\ reserved_numbers' = Put(reserved_numbers, g.dc, g.key)
    /\ ops' = ops + 1
    /\ UNCHANGED <<phase, generator, probe, restarts, conc>>

\* DCSequenceManager.reserve_dc_number as a call
Reserve ==
    /\ phase = "run" /\ ops < MaxOps
    /\ \E t \in Requests, f \in Faults(generator), readFails \in BOOLEAN :
         /\ f = 0 => ~readFails
         /\ \E g \in {reserve_dc_number(t[1], t[2], t[3], f, readFails)} :
                /\ Store(g.r)
                /\ Track(generator, g.key, g.r)
                /\ last' = [NextObs("reserve", generator, g.key, g.r) EXCEPT
                              !.req = t, !.ok = ~g.raised, !.val = g.val, !.dc = g.dc,
                              !.dup = (g.dc \in issued)]
                /\ issued' = issued \cup {g.dc}
    /\ ops' = ops + 1
    /\ UNCHANGED <<phase, generator, probe, reserved_numbers, restarts, conc>>

\* DCSequenceManager.confirm_dc_number
Confirm ==
    /\ phase = "run" /\ ops < MaxOps
    /\ \E dc_number \in issued \cup {<<"A","K","D","C","A","H">> \o Pad6(1)},
          f \in Faults(generator) :
         IF dc_number \notin DOMAIN reserved_numbers
         THEN /\ f = 0
              /\ last' = [NoLast EXCEPT !.op = "confirm", !.backend = generator,
                                        !.dc = dc_number, !.val = 0]
              /\ UNCHANGED <<stores, reserved_numbers, lastRet, touched>>
         ELSE \E sequence_name \in {reserved_numbers[dc_number]} :
              \E r \in {NextOn(generator, sequence_name, f)} :
                  /\ Store(r)
                  /\ Track(generator, sequence_name, r)
                  /\ reserved_numbers' =
                       IF r.ok
                       THEN [d \in (DOMAIN reserved_numbers) \ {dc_number}
                               |-> reserved_numbers[d]]
                       ELSE reserved_numbers
                  /\ last' = [NextObs("confirm", generator, sequence_name, r) EXCEPT
                                !.ok = TRUE, !.dc = dc_number,
                                !.val = IF r.ok THEN 1 ELSE 0]
    /\ ops' = ops + 1
    /\ UNCHANGED <<phase, generator, probe, issued, restarts, conc>>

\* DCSequenceManager.get_current_sequence called by a client
GetCurrentSequence ==
    /\ phase = "run" /\ ops < MaxOps
    /\ \E sequence_name \in QueryKeys, readFails \in BOOLEAN :
         /\ generator = "Local" => ~readFails
         /\ last' = [NoLast EXCEPT
                       !.op = "current", !.backend = generator, !.key = sequence_name,
                       !.down = readFails,
                       !.val = get_current_sequence(localSeq, sequence_name, readFails),
                       !.fresh = Unseen(generator, sequence_name)]
    /\ ops' = ops + 1
    /\ UNCHANGED <<phase, generator, probe, stores, reserved_numbers, issued,
                   lastRet, touched, restarts, conc>>

\* DCSequenceManager.get_current_sequences: the listing; val is its size
GetCurrentSequences ==
    /\ phase = "run" /\ ops < MaxOps
    /\ last' = [NoLast EXCEPT
                  !.op = "listing", !.backend = generator,
                  !.val = IF generator = "Local" THEN Cardinality(DOMAIN localSeq)
                          ELSE 0]
    /\ ops' = ops + 1
    /\ UNCHANGED <<phase, generator, probe, stores, reserved_numbers, issued,
                   lastRet, touched, restarts, conc>>

\* a health report that reads the store and lets the error out
GetSequenceHealthReportReading ==
    /\ phase = "run" /\ ops < MaxOps
    /\ \E unreadable \in BOOLEAN :
         /\ generator = "Local" => ~unreadable
         /\ last' = [NoLast EXCEPT
                       !.op = "health", !.backend = generator,
                       !.ok = ~unreadable, !.down = unreadable,
                       !.status = IF unreadable THEN "none" ELSE "healthy",
                       !.val = IF generator = "Local"
                               THEN Cardinality(DOMAIN localSeq) ELSE 0]
    /\ ops' = ops + 1
    /\ UNCHANGED <<phase, generator, probe, stores, reserved_numbers, issued,
                   lastRet, touched, restarts, conc>>

\* DCSequenceManager.get_sequence_health_report; unreadable: the store of the
\* selected backend cannot be read while the call runs. The report is built
\* without a call to the backend: the try block of the health check holds only
\* an assignment, so its except branch ('warning') is never taken
GetSequenceHealthReport ==
    /\ phase = "run" /\ ops < MaxOps
    /\ \E unreadable \in BOOLEAN :
         /\ generator = "Local" => ~unreadable
         /\ last' = [NoLast EXCEPT
                       !.op = "health", !.backend = generator,
                       !.status = "healthy", !.down = unreadable,
                       !.val = IF generator = "Local"
                               THEN Cardinality(DOMAIN localSeq) ELSE 0]
    /\ ops' = ops + 1
    /\ UNCHANGED <<phase, generator, probe, stores, reserved_numbers, issued,
                   lastRet, touched, restarts, conc>>

\* GitHubSequenceGenerator.get_next_sequence, called by the synchronisation path
GitHubNext ==
    /\ phase = "run" /\ ops < MaxOps
    /\ \E sequence_name \in QueryKeys, f \in Faults("GitHub") :
         \E r \in {NextOn("GitHub", sequence_name, f)} :
             /\ Store(r)
             /\ Track("GitHub", sequence_name, r)
             /\ last' = NextObs("next", "GitHub", sequence_name, r)
    /\ ops' = ops + 1
    /\ UNCHANGED <<phase, generator, probe, reserved_numbers, issued, restarts, conc>>

\* GitHubSequenceGenerator.get_current_sequence_value
GitHubCurrent ==
    /\ phase = "run" /\ ops < MaxOps
    /\ \E sequence_name \in QueryKeys, readFails \in BOOLEAN :
         last' = [NoLast EXCEPT
                    !.op = "current", !.backend = "GitHub", !.key = sequence_name,
                    !.val = CurrentOn("GitHub", sequence_name, readFails).val,
                    !.fresh = Unseen("GitHub", sequence_name)]
    /\ ops' = ops + 1
    /\ UNCHANGED <<phase, generator, probe, stores, reserved_numbers, issued,
                   lastRet, touched, restarts, conc>>

(* --------------------------- specification ---------------------------- *)
PopulatedRows ==
    <<HeaderRow,
      [name |-> akdcah_seq, val |-> 305],
      [name |-> bddcsg_seq, val |-> EmptyCell],
      [name |-> akdchydnch_seq, val |-> 999998]>>

LocalAbsent == [st |-> "absent", seqs |-> EmptyMap]

LocalPopulated ==
    [st |-> "valid",
     seqs |-> [k \in {bddcsg_seq, akdchydnch_seq} |->
                 IF k = akdchydnch_seq THEN 999998 ELSE 304]]

\* a first installation (no worksheet, no state file), one whose earlier
\* process created the worksheet and failed before writing its header
\* (Construct with gsInit = "headerfail"), or one that has run. For a
\* worksheet without any value get_all_values() returns [] or [[]], depending
\* on the version of gspread installed: both are initial states
Init ==
    /\ phase = "boot"
    /\ generator = "none"
    /\ probe = [gs |-> "none", sb |-> "none", local |-> "none", gsReadFailed |-> FALSE]
    /\ \/ wsExists = FALSE /\ sheet = <<>> /\ localFile = LocalAbsent
       \/ wsExists = TRUE /\ sheet = <<>> /\ localFile = LocalAbsent
       \/ wsExists = TRUE /\ sheet = <<BlankRow>> /\ localFile = LocalAbsent
       \/ wsExists = TRUE /\ sheet = PopulatedRows /\ localFile = LocalPopulated
    /\ sbTable = [k \in {akdcah_seq, bddcsg_seq, akdchydnch_seq} |->
                    IF k = akdchydnch_seq THEN 999998 ELSE Floor]
    /\ ghFile = [exists |-> TRUE, seqs |-> GHInitialSeqs, hist |-> EmptyMap, sha |-> 1,
                 log |-> EmptyMap]
    /\ localSeq = EmptyMap
    /\ reserved_numbers = EmptyMap
    /\ last = NoLast
    /\ issued = {}
    /\ lastRet = EmptyMap
    /\ touched = {}
    /\ ops = 0
    /\ restarts = 0
    /\ shared = "none"
    /\ callers = EmptyMap
    /\ calls = 0
    /\ succ = EmptyMap
    /\ rets = {}

Next ==
    \/ Construct
    \/ Restart
    \/ Generate
    \/ Reserve
    \/ Confirm
    \/ GetCurrentSequence
    \/ GetCurrentSequences
    \/ GetSequenceHealthReport
    \/ GitHubNext
    \/ GitHubCurrent

Spec == Init /\ [][Next]_vars

(* ------------------------- document generation ----------------------- *)
LEGACY_DC_001 == <<"L","E","G","A","C","Y","_","D","C","_","0","0","1">>

\* VehicleDCGenerator.create_vehicle_dc_excel for a dc_data_item prepared by
\* VehicleDataManager (whose _generate_dc_number only builds a "PENDING_..."
\* placeholder and calls nothing): reserve_dc_number, wb.save, and
\* confirm_dc_number when the save succeeded. saved = FALSE: wb.save raised and
\* the except branch returns without a file. confirm_dc_number finds no entry
\* for the number in reserved_numbers and returns False
create_vehicle_dc_excel ==
    /\ phase = "run" /\ ops < MaxOps
    /\ \E t \in Requests, f \in Faults(generator), readFails \in BOOLEAN,
          saved \in BOOLEAN :
         /\ f = 0 => ~readFails
         /\ \E g \in {reserve_dc_number(t[1], t[2], t[3], f, readFails)} :
                /\ g.dc \notin DOMAIN reserved_numbers
                /\ Store(g.r)
                /\ Track(generator, g.key, g.r)
                /\ last' = [NextObs("vehicle_dc", generator, g.key, g.r) EXCEPT
                              !.req = t, !.ok = saved, !.val = g.val,
                              !.dc = IF saved THEN g.dc ELSE <<>>,
                              !.dup = (g.dc \in issued)]
                /\ issued' = issued \cup {g.dc}
    /\ ops' = ops + 1
    /\ UNCHANGED <<phase, generator, probe, reserved_numbers, restarts, conc>>

\* dc_template_generator.create_dc_excel: generate_dc_number(hub_type,
\* facility_name) with no hub value; when it raises the number is
\* "LEGACY_DC_001" and the document is built and saved all the same
create_dc_excel ==
    /\ phase = "run" /\ ops < MaxOps
    /\ \E t \in Requests, f \in Faults(generator), saved \in BOOLEAN :
         \E g \in {generate_dc_number(t[1], t[2], NoHub, f)} :
             \E dc_number \in {IF g.raised THEN LEGACY_DC_001 ELSE g.dc} :
                /\ Store(g.r)
                /\ Track(generator, g.key, g.r)
                /\ last' = [NextObs("dc_excel", generator, g.key, g.r) EXCEPT
                              !.req = <<t[1], t[2], NoHub>>, !.ok = saved,
                              !.val = g.val,
                              !.dc = IF saved THEN dc_number ELSE <<>>,
                              !.dup = (~g.raised /\ g.dc \in issued)]
                /\ issued' = IF g.raised THEN issued ELSE issued \cup {g.dc}
    /\ ops' = ops + 1
    /\ UNCHANGED <<phase, generator, probe, reserved_numbers, restarts, conc>>

DocNext ==
    \/ Construct
    \/ Restart
    \/ create_vehicle_dc_excel
    \/ create_dc_excel

\* the document generators on the manager of the process
DocSpec == Init /\ [][DocNext]_vars

(* --------------------- a long run on the GitHub file ------------------ *)
\* number of get_next_sequence calls of one run on the GitHub file
MaxHistCalls == 12

\* GitHubSequenceGenerator.get_next_sequence, called again and again by one
\* caller
GitHubNextRepeated ==
    /\ phase = "history" /\ ops < MaxHistCalls
    /\ \E sequence_name \in QueryKeys, f \in Faults("GitHub") :
         \E r \in {NextOn("GitHub", sequence_name, f)} :
             /\ Store(r)
             /\ Track("GitHub", sequence_name, r)
             /\ last' = NextObs("next", "GitHub", sequence_name, r)
    /\ ops' = ops + 1
    /\ UNCHANGED <<phase, generator, probe, reserved_numbers, issued, restarts, conc>>

\* the file as _initialize_sequence_file committed it
HistInit ==
    /\ phase = "history"
    /\ generator = "none"
    /\ probe = [gs |-> "none", sb |-> "none", local |-> "none", gsReadFailed |-> FALSE]
    /\ wsExists = FALSE /\ sheet = <<>> /\ localFile = LocalAbsent
    /\ sbTable = EmptyMap
    /\ ghFile = [exists |-> TRUE, seqs |-> GHInitialSeqs, hist |-> EmptyMap, sha |-> 1,
                 log |-> EmptyMap]
    /\ localSeq = EmptyMap
    /\ reserved_numbers = EmptyMap
    /\ last = NoLast
    /\ issued = {}
    /\ lastRet = EmptyMap
    /\ touched = {}
    /\ ops = 0
    /\ restarts = 0
    /\ shared = "none"
    /\ callers = EmptyMap
    /\ calls = 0
    /\ succ = EmptyMap
    /\ rets = {}

HistSpec == HistInit /\ [][GitHubNextRepeated]_vars

(* ------------------ generate_dc_number over its arguments ------------- *)
NCH       == <<"N","C","H">>
HYD_      == <<"H","Y","D","_">>
hyd_a_bc  == <<"h","y","d","_","a","_","b","c">>

\* company names, facility names and hub values a call can be given: known and
\* unknown names, hub values with no, one, a trailing and two separators
HubCompanies  == {AMOLAKCHAND, BODEGA, BodegaMixed, SOURCINGBEE, ACME}
HubFacilities == {SutlejGomati, Arihant, FCHyderabad, Hyderabad, Depot}
HubValues     == {NoHub, HYD_NCH, hyd_abcd, NCH, HYD_, hyd_a_bc}

\* one generate_dc_number call of a manager on the local generator, on the
\* arguments last.req
GenerateFor ==
    /\ phase = "args" /\ last.op = "request"
    /\ \E t \in {last.req} :
         \E g \in {generate_dc_number(t[1], t[2], t[3], 0)} :
             /\ Store(g.r)
             /\ Track(generator, g.key, g.r)
             /\ last' = [NextObs("generate", generator, g.key, g.r) EXCEPT
                           !.req = t, !.ok = ~g.raised, !.val = g.val, !.dc = g.dc,
                           !.dup = (~g.raised /\ g.dc \in issued)]
             /\ issued' = IF g.raised THEN issued ELSE issued \cup {g.dc}
    /\ ops' = ops + 1
    /\ UNCHANGED <<phase, generator, probe, reserved_numbers, restarts, conc>>

\* a manager constructed on the local generator with no state file, about to
\* be called with one choice of arguments
ArgsInit ==
    /\ phase = "args"
    /\ generator = "Local"
    /\ probe = [gs |-> "construct_failed", sb |-> "construct_failed", local |-> "ok",
                gsReadFailed |-> FALSE]
    /\ wsExists = FALSE /\ sheet = <<>> /\ localFile = LocalAbsent
    /\ sbTable = EmptyMap
    /\ ghFile = [exists |-> TRUE, seqs |-> GHInitialSeqs, hist |-> EmptyMap, sha |-> 1,
                 log |-> EmptyMap]
    /\ localSeq = LoadSequences(LocalAbsent).seqs
    /\ reserved_numbers = EmptyMap
    /\ \E company_name \in HubCompanies, facility_name \in HubFacilities,
          hub_value \in HubValues :
         last = [NoLast EXCEPT !.op = "request",
                               !.req = <<company_name, facility_name, hub_value>>]
    /\ issued = {}
    /\ lastRet = EmptyMap
    /\ touched = {}
    /\ ops = 0
    /\ restarts = 0
    /\ shared = "none"
    /\ callers = EmptyMap
    /\ calls = 0
    /\ succ = EmptyMap
    /\ rets = {}

ArgsSpec == ArgsInit /\ [][GenerateFor]_vars

(* ------------------------- concurrent callers ------------------------- *)
\* request handlers that call get_next_sequence on one shared backend
Callers == {"c1", "c2"}

\* number of get_next_sequence calls the concurrent callers start in one run
MaxCalls == 3

IdleCall == [pc |-> "idle", key |-> <<>>, attempt |-> 0, stale |-> 0,
             snap |-> <<>>, ret |-> 0]

\* "return next_value": the call of caller c ends with value v
Returned(c, v) ==
    /\ callers' = [callers EXCEPT ![c].pc = "done", ![c].ret = v]
    /\ succ' = [succ EXCEPT ![callers[c].key] = @ + 1]
    /\ rets' = rets \cup {<<callers[c].key, v>>}

\* an except branch that allows one pass more than retry_count
RetryOnceMore(c, retry_count, st) ==
    /\ callers' = [callers EXCEPT
                     ![c].attempt = @ + 1,
                     ![c].stale = @ + st,
                     ![c].pc = IF callers[c].attempt + 1 <= retry_count
                               THEN "read" ELSE "failed"]
    /\ UNCHANGED <<succ, rets>>

\* the except branch of the retry loop: another pass, or the error is raised
\* after retry_count passes; st = 1 when the pass ended on a refused commit
Retry(c, retry_count, st) ==
    /\ callers' = [callers EXCEPT
                     ![c].attempt = @ + 1,
                     ![c].stale = @ + st,
                     ![c].pc = IF callers[c].attempt + 1 < retry_count
                               THEN "read" ELSE "failed"]
    /\ UNCHANGED <<succ, rets>>

seqVars == <<phase, generator, probe, wsExists, localFile, localSeq,
             reserved_numbers, last, issued, lastRet, touched, ops, restarts>>

\* a caller enters get_next_sequence(sequence_name)
CallNext ==
    /\ shared # "none" /\ calls < MaxCalls
    /\ \E c \in Callers, sequence_name \in QueryKeys :
         /\ callers[c].pc \in {"idle", "done", "failed"}
         /\ callers' = [callers EXCEPT ![c] = [IdleCall EXCEPT !.pc = "read",
                                                               !.key = sequence_name]]
    /\ calls' = calls + 1
    /\ UNCHANGED <<seqVars, sheet, sbTable, ghFile, shared, succ, rets>>

\* all_values = self.worksheet.get_all_values()
GSRead ==
    /\ shared = "GoogleSheets"
    /\ \E c \in Callers :
         /\ callers[c].pc = "read"
         /\ callers' = [callers EXCEPT ![c].pc = "write", ![c].snap = sheet]
    /\ UNCHANGED <<seqVars, sheet, sbTable, ghFile, shared, calls, succ, rets>>

\* self.worksheet.update(update_range, update_values) and the return
GSWrite ==
    /\ shared = "GoogleSheets"
    /\ \E c \in Callers :
         /\ callers[c].pc = "write"
         /\ \E plan \in {GSPlan(callers[c].snap, callers[c].key)} :
              /\ sheet' = GSApply(sheet, plan, callers[c].key)
              /\ Returned(c, plan.next_value)
    /\ UNCHANGED <<seqVars, sbTable, ghFile, shared, calls>>

\* a worksheet call of the pass raises and changes nothing
GSRaise ==
    /\ shared = "GoogleSheets"
    /\ \E c \in Callers :
         /\ callers[c].pc \in {"read", "write"}
         /\ Retry(c, GSRetryCount, 0)
    /\ UNCHANGED <<seqVars, sheet, sbTable, ghFile, shared, calls>>

\* a fetch that after a refused commit takes only the new sha and keeps the
\* content fetched before
GHFetchShaOnly ==
    /\ shared = "GitHub"
    /\ \E c \in Callers :
         /\ callers[c].pc = "read"
         /\ callers' = [callers EXCEPT
                          ![c].pc = "write",
                          ![c].snap = IF callers[c].stale = 0 THEN ghFile
                                      ELSE [callers[c].snap EXCEPT !.sha = ghFile.sha]]
    /\ UNCHANGED <<seqVars, sheet, sbTable, ghFile, shared, calls, succ, rets>>

\* content, sha = self._get_file_from_github()
GHFetch ==
    /\ shared = "GitHub"
    /\ \E c \in Callers :
         /\ callers[c].pc = "read"
         /\ callers' = [callers EXCEPT ![c].pc = "write", ![c].snap = ghFile]
    /\ UNCHANGED <<seqVars, sheet, sbTable, ghFile, shared, calls, succ, rets>>

\* a commit that the repository accepts whatever sha it carries
GHCommitUnconditional ==
    /\ shared = "GitHub"
    /\ \E c \in Callers :
         /\ callers[c].pc = "write"
         /\ \E f \in {GHAttempt(callers[c].snap, callers[c].key)} :
              /\ ghFile' = f
              /\ Returned(c, f.seqs[callers[c].key])
    /\ UNCHANGED <<seqVars, sheet, sbTable, shared, calls>>

\* self._commit_file_to_github(content, sha, message): the repository accepts
\* the PUT when sha is the sha of the file it holds and refuses it otherwise
GHCommit ==
    /\ shared = "GitHub"
    /\ \E c \in Callers :
         /\ callers[c].pc = "write"
         /\ IF callers[c].snap.sha = ghFile.sha
            THEN \E f \in {GHAttempt(callers[c].snap, callers[c].key)} :
                   /\ ghFile' = f
                   /\ Returned(c, f.seqs[callers[c].key])
            ELSE /\ Retry(c, GHRetryCount, 1)
                 /\ UNCHANGED ghFile
    /\ UNCHANGED <<seqVars, sheet, sbTable, shared, calls>>

\* the fetch raises, or the PUT fails before it reaches the repository
GHRaise ==
    /\ shared = "GitHub"
    /\ \E c \in Callers :
         /\ callers[c].pc \in {"read", "write"}
         /\ Retry(c, GHRetryCount, 0)
    /\ UNCHANGED <<seqVars, sheet, sbTable, ghFile, shared, calls>>

\* self.supabase.rpc('get_next_seq', ...).execute(): one step of the database
SBRpc ==
    /\ shared = "Supabase"
    /\ \E c \in Callers :
         /\ callers[c].pc = "read"
         /\ \E t \in {SBProcNext(sbTable, callers[c].key)} :
              /\ sbTable' = t
              /\ Returned(c, t[callers[c].key])
    /\ UNCHANGED <<seqVars, sheet, ghFile, shared, calls>>

\* the RPC raises: there is no retry
SBRaise ==
    /\ shared = "Supabase"
    /\ \E c \in Callers :
         /\ callers[c].pc = "read"
         /\ Retry(c, 1, 0)
    /\ UNCHANGED <<seqVars, sheet, sbTable, ghFile, shared, calls>>

\* the stores as the sequential runs start from them, each shared by the
\* callers of one backend
ConcInit ==
    /\ phase = "shared"
    /\ generator = "none"
    /\ probe = [gs |-> "none", sb |-> "none", local |-> "none", gsReadFailed |-> FALSE]
    /\ \/ shared = "GoogleSheets" /\ sheet = PopulatedRows
       \/ shared = "GoogleSheets" /\ sheet = <<HeaderRow>>
       \/ shared = "GitHub" /\ sheet = PopulatedRows
       \/ shared = "Supabase" /\ sheet = PopulatedRows
    /\ wsExists = TRUE
    /\ localFile = LocalAbsent
    /\ sbTable = [k \in {akdcah_seq, bddcsg_seq, akdchydnch_seq} |->
                    IF k = akdchydnch_seq THEN 999998 ELSE Floor]
    /\ ghFile = [exists |-> TRUE, seqs |-> GHInitialSeqs, hist |-> EmptyMap, sha |-> 1,
                 log |-> EmptyMap]
    /\ localSeq = EmptyMap
    /\ reserved_numbers = EmptyMap
    /\ last = NoLast
    /\ issued = {}
    /\ lastRet = EmptyMap
    /\ touched = {}
    /\ ops = 0
    /\ restarts = 0
    /\ callers = [c \in Callers |-> IdleCall]
    /\ calls = 0
    /\ succ = [k \in QueryKeys |-> 0]
    /\ rets = {}

ConcNext ==
    \/ CallNext
    \/ GSRead
    \/ GSWrite
    \/ GSRaise
    \/ GHFetch
    \/ GHCommit
    \/ GHRaise
    \/ SBRpc
    \/ SBRaise

ConcSpec == ConcInit /\ [][ConcNext]_vars

\* a step of caller c inside the retry loop of get_next_sequence
Pass(c) ==
    /\ callers[c].pc \in {"read", "write"}
    /\ ConcNext
    /\ callers'[c] # callers[c]

\* the concurrent callers with each caller's loop running on: the body of the
\* loop is straight-line code between two calls of the store, the except
\* branch sleeps for a fixed time, and a call of the store returns or raises
ConcFairSpec == ConcSpec /\ \A c \in Callers : WF_vars(Pass(c))

(* ------------------------- what the claims read ----------------------- *)
\* get_current_sequence_value of a newly constructed adapter of backend b whose
\* read succeeds
FreshCurrentValue(b, sequence_name) ==
    CASE b = "GoogleSheets" -> GSCurrent(sheet, sequence_name, FALSE).val
      [] b = "Supabase"     -> SBCurrent(sbTable, sequence_name, FALSE).val
      [] b = "GitHub"       -> GHCurrent(ghFile, sequence_name, FALSE).val
      [] b = "Local"        -> Get(LoadSequences(localFile).seqs, sequence_name, Floor)

akdchydabcd_seq ==
    <<"a","k","d","c","h","y","d","a","b","c","d","_","s","e","q">>

\* the prefix and the key the documentation gives for each request, as literals
ExpectedPrefix(req) ==
    CASE req = <<BODEGA, SutlejGomati, NoHub>>        -> <<"B","D","D","C","S","G">>
      [] req = <<BodegaMixed, SutlejGomati, HYD_NCH>> -> <<"B","D","D","C","S","G">>
      [] req = <<AMOLAKCHAND, Arihant, NoHub>>        -> <<"A","K","D","C","A","H">>
      [] req = <<AMOLAKCHAND, FCHyderabad, HYD_NCH>>  ->
             <<"A","K","D","C","H","Y","D","N","C","H">>
      [] req = <<AMOLAKCHAND, FCHyderabad, hyd_abcd>> ->
             <<"A","K","D","C","H","Y","D","A","B","C","D">>
      [] req = <<ACME, Depot, NoHub>>                 -> <<"X","X","D","C","X","X">>

ExpectedKey(req) ==
    CASE req = <<BODEGA, SutlejGomati, NoHub>>        -> bddcsg_seq
      [] req = <<BodegaMixed, SutlejGomati, HYD_NCH>> -> bddcsg_seq
      [] req = <<AMOLAKCHAND, Arihant, NoHub>>        -> akdcah_seq
      [] req = <<AMOLAKCHAND, FCHyderabad, HYD_NCH>>  -> akdchydnch_seq
      [] req = <<AMOLAKCHAND, FCHyderabad, hyd_abcd>> -> akdchydabcd_seq
      [] req = <<ACME, Depot, NoHub>>                 -> xxdcxx_seq

RECURSIVE DecimalValue(_)
\* the number a string of decimal digits denotes
DecimalValue(s) ==
    IF s = <<>> THEN 0
    ELSE 10 * DecimalValue(SubSeq(s, 1, Len(s) - 1))
         + (CHOOSE d \in 0..9 : DigitChars[d + 1] = s[Len(s)])

\* the length of the longest number the configured codes give at 999999
LongestConfiguredNumber ==
    LET lens == { Len(FormatDC(cc \o DC \o fc \o hub, 10 ^ SeqDigits - 1)) :
                    cc \in ConfiguredCompanyCodes, fc \in ConfiguredFacilityCodes,
                    hub \in telangana_hubs \cup {<<>>} }
    IN  CHOOSE n \in lens : \A m \in lens : m <= n

\* a call that returned a document number
ReturnedNumber == last.op \in {"generate", "reserve"} /\ last.ok

\* a get_next_sequence call that returned a value
ReturnedValue == last.nv = 1 /\ last.nvOk

(* ------------------------------- claims ------------------------------- *)
\* C1: on every backend and for every key, each value a successful
\* get_next_sequence returns to the single caller is greater than every value
\* an earlier successful call on that backend and key returned.
C1_StrictlyIncreasing ==
    (ReturnedValue /\ last.prev # 0) => last.val > last.prev

\* C2: whatever backend calls fail, no generate or reserve call of one manager
\* returns a document number an earlier generate or reserve call of that
\* manager returned.
C2_NoDuplicateNumber ==
    ReturnedNumber => ~last.dup

\* C3: for a key that neither the store holds nor any earlier call has touched,
\* the current value is 300 and the first value get_next_sequence returns is
\* 301, on every backend.
C3_FloorInitialization ==
    /\ (last.op = "current" /\ last.fresh) => last.val = Floor
    /\ (ReturnedValue /\ last.fresh) => last.val = Floor + 1

C3_Witness ==
    ReturnedValue /\ last.fresh /\ last.backend = "GoogleSheets"
    /\ last.key = xxdcxx_seq /\ Len(sheet) > 1

\* C4: a current-value call changes no store and no adapter state, and a
\* current-value call that directly follows one on the same backend and key
\* returns the same value.
C4_CurrentValueIdempotent ==
    [][ last'.op = "current" =>
          /\ stores' = stores
          /\ (last.op = "current" /\ last.backend = last'.backend
                /\ last.key = last'.key) => last'.val = last.val ]_vars

\* C5: when get_next_sequence has returned v, the store holds v for that key:
\* a newly constructed adapter reads v as the current value.
C5_PersistedBeforeReturn ==
    ReturnedValue => FreshCurrentValue(last.backend, last.key) = last.val

\* C6: generate calls get_next_sequence once, on the documented key of the
\* request (entity matched case-insensitively, XX for unknown names), and
\* returns the documented prefix followed by the returned value as six digits;
\* BODEGA / Sutlej/Gomati gives BDDCSG000301 at 301 and BDDCSG000302 at 302.
C6_GenerateKeyAndFormat ==
    last.op = "generate" =>
        /\ last.nv = 1
        /\ last.key = ExpectedKey(last.req)
        /\ last.backend = generator
        /\ last.ok =>
             LET P == ExpectedPrefix(last.req)
             IN  /\ SubSeq(last.dc, 1, Len(P)) = P
                 /\ DecimalValue(SubSeq(last.dc, Len(P) + 1, Len(last.dc))) = last.val
                 /\ last.val < 10 ^ SeqDigits => Len(last.dc) = Len(P) + SeqDigits
        /\ (last.ok /\ last.req = <<BODEGA, SutlejGomati, NoHub>>) =>
             /\ last.val = 301 =>
                  last.dc = <<"B","D","D","C","S","G","0","0","0","3","0","1">>
             /\ last.val = 302 =>
                  last.dc = <<"B","D","D","C","S","G","0","0","0","3","0","2">>

C6_Witness ==
    /\ last.op = "generate" /\ last.ok
    /\ last.req = <<BODEGA, SutlejGomati, NoHub>>
    /\ last.prev = 301
    /\ last.dc = <<"B","D","D","C","S","G","0","0","0","3","0","2">>

\* C7: for every configured entity code, facility code and hub code (or no hub
\* code) the number formatted with 999999 has at most 16 characters, and so
\* has every number returned for a configured request up to that value.
C7_ConfiguredLengthBound ==
    /\ LongestConfiguredNumber <= MaxDCLen
    /\ ( /\ ReturnedNumber
         /\ last.val < 10 ^ SeqDigits
         /\ company_codes(Upper(last.req[1])) \in ConfiguredCompanyCodes
         /\ facility_codes(last.req[2]) \in ConfiguredFacilityCodes
         /\ ExtractHubCode(last.req[3]) \in telangana_hubs \cup {<<>>} )
       => Len(last.dc) <= MaxDCLen

C7_Witness ==
    /\ last.op = "generate" /\ last.ok
    /\ last.req = <<AMOLAKCHAND, FCHyderabad, HYD_NCH>>
    /\ last.val = 10 ^ SeqDigits - 1
    /\ Len(last.dc) = MaxDCLen

\* C8: every document number generate or reserve returns has at most 16
\* characters, whatever names and hub value are passed in and whatever value
\* the counter has reached.
C8_EveryNumberFits ==
    ReturnedNumber => Len(last.dc) <= MaxDCLen

\* C9: the constructor selects the first of Google Sheets, Supabase, local
\* file whose construction and probe call both succeed, the candidates after
\* it are not tried, and every generate call goes to the selected backend.
C9_FallbackSelection ==
    /\ phase = "run" =>
         /\ generator \in {"GoogleSheets", "Supabase", "Local"}
         /\ generator = "GoogleSheets" =>
              probe.gs = "ok" /\ probe.sb = "skipped" /\ probe.local = "skipped"
         /\ generator = "Supabase" =>
              /\ probe.gs \in {"construct_failed", "probe_failed"}
              /\ probe.sb = "ok" /\ probe.local = "skipped"
         /\ generator = "Local" =>
              /\ probe.gs \in {"construct_failed", "probe_failed"}
              /\ probe.sb \in {"construct_failed", "probe_failed"}
              /\ probe.local = "ok"
    /\ (phase = "run" /\ last.op = "generate") => last.backend = generator

C9_Witness ==
    /\ generator = "Local"
    /\ probe.gs = "construct_failed" /\ probe.sb = "probe_failed"
    /\ last.op = "generate" /\ last.ok /\ last.backend = "Local"

\* C10: no call on a constructed manager, successful or failed, changes the
\* selected backend.
C10_NoRuntimeSwap ==
    [][ (phase = "run" /\ restarts' = restarts) => generator' = generator ]_vars

C10_Witness ==
    /\ last.op = "reserve" /\ ~last.nvOk /\ last.attempts = GSRetryCount
    /\ generator = "GoogleSheets" /\ ops = MaxOps

\* C11: on GitHub a commit is accepted only from the content of the caller's
\* latest fetch; after a first commit refused for a stale sha, the call that
\* succeeds on its second pass returns the value of its second fetch plus one,
\* and the file holds that value afterwards.
C11_RefetchAfterStaleCommit ==
    [][ \A c \in Callers :
          (shared = "GitHub" /\ callers[c].pc = "write" /\ callers'[c].pc = "done") =>
             /\ callers[c].snap = ghFile
             /\ callers'[c].ret = Get(callers[c].snap.seqs, callers[c].key, Floor) + 1
             /\ Get(ghFile'.seqs, callers[c].key, Floor) = callers'[c].ret ]_vars

C11_Witness ==
    /\ shared = "GitHub"
    /\ \E c \in Callers :
         /\ callers[c].pc = "done" /\ callers[c].stale = 1 /\ callers[c].attempt = 1
         /\ callers[c].key = akdcah_seq /\ succ[akdcah_seq] = 2
         /\ callers[c].ret = Floor + 2
         /\ Get(ghFile.seqs, akdcah_seq, Floor) = Floor + 2

\* C12: when get_next_sequence has failed on all its attempts, generate and
\* reserve report the failure and return no document number.
C12_FailureIsReported ==
    (last.op \in {"generate", "reserve"} /\ last.nv = 1 /\ ~last.nvOk) =>
        (~last.ok /\ last.dc = <<>>)

\* C13: for every request and every outcome of the backend call, reserve
\* returns what generate returns (the same number or the same failure) and
\* leaves the same counters.
C13_ReserveAsGenerate ==
    phase = "run" =>
        \A t \in Requests, f \in Faults(generator), readFails \in BOOLEAN :
            LET g == generate_dc_number(t[1], t[2], t[3], f)
                r == reserve_dc_number(t[1], t[2], t[3], f, readFails)
            IN  g.raised = r.raised /\ g.dc = r.dc /\ g.r = r.r

C15_HealthReportNeverRaises ==
    [][ (last'.op = "health" /\ ops' = ops + 1) =>
          /\ last'.ok
          /\ last'.status \in {"healthy", "warning"}
          /\ stores' = stores /\ reserved_numbers' = reserved_numbers ]_vars

C15_Witness ==
    last.op = "health" /\ last.down /\ last.ok /\ generator = "GoogleSheets"

\* C16: the constructor always ends with a backend selected; when both remote
\* candidates fail the local one is selected, whatever the state file holds.
C16_ConstructionCompletes ==
    last.op = "construct" =>
        /\ phase = "run"
        /\ generator \in {"GoogleSheets", "Supabase", "Local"}

\* C17: a health report made while the store of the selected backend cannot
\* be read has a status other than 'healthy'.
C17_DegradedWhenUnreadable ==
    (last.op = "health" /\ last.down) => last.status # "healthy"

\* C18: a Google Sheets candidate whose worksheet read fails during the
\* connection test of the constructor is not selected.
C18_FailedProbeNotSelected ==
    (phase = "run" /\ probe.gsReadFailed) => generator # "GoogleSheets"

\* the value a shared store holds for a key
StoredValue(sequence_name) == FreshCurrentValue(shared, sequence_name)

\* C19: with concurrent get_next_sequence calls on one shared Google Sheets,
\* GitHub or Supabase store, no step makes the stored value of a key smaller.
C19_StoredValueNeverDecreases ==
    [][ shared # "none" =>
          \A k \in QueryKeys : StoredValue(k)' >= StoredValue(k) ]_vars

\* C20: on a shared GitHub file, the calls that returned for one key returned
\* pairwise different values, and the file holds for each key its initial value
\* plus the number of calls that returned for it.
C20_NoAcceptedIncrementLost ==
    shared = "GitHub" =>
        \A k \in QueryKeys :
            /\ Cardinality({r \in rets : r[1] = k}) = succ[k]
            /\ Get(ghFile.seqs, k, Floor) = Get(GHInitialSeqs, k, Floor) + succ[k]

C20_Witness ==
    /\ shared = "GitHub"
    /\ succ[akdcah_seq] = 2 /\ succ[xxdcxx_seq] = 1
    /\ \A c \in Callers : callers[c].pc = "done"
    /\ \E c \in Callers : callers[c].stale >= 1 /\ callers[c].key = xxdcxx_seq
    /\ rets = {<<akdcah_seq, Floor + 1>>, <<akdcah_seq, Floor + 2>>,
               <<xxdcxx_seq, Floor + 1>>}

\* the retry_count default of the shared backend's get_next_sequence
RetryCount ==
    CASE shared = "GoogleSheets" -> GSRetryCount
      [] shared = "GitHub"       -> GHRetryCount
      [] OTHER                   -> 1

\* C21: a get_next_sequence call on Google Sheets makes at most 3 passes and
\* one on GitHub at most 5; a call whose passes all failed ends with the error
\* raised and no value returned, after exactly that many passes; and every
\* call that has started ends, returned or raised: again and again no caller
\* is inside the loop (a caller leaves the loop only by return or raise).
C21_CallsTerminate ==
    /\ [](shared \in {"GoogleSheets", "GitHub"} =>
            \A c \in Callers :
               /\ callers[c].attempt <= RetryCount
               /\ callers[c].pc \in {"read", "write", "done"} =>
                     callers[c].attempt < RetryCount
               /\ callers[c].pc = "failed" =>
                     callers[c].attempt = RetryCount /\ callers[c].ret = 0)
    /\ \A c \in Callers :
         []<>(callers[c].pc \notin {"read", "write"})

C21_Witness ==
    /\ shared = "GitHub"
    /\ \E c \in Callers :
         /\ callers[c].pc = "failed" /\ callers[c].attempt = GHRetryCount
         /\ callers[c].stale >= 1 /\ callers[c].ret = 0
    /\ \E c \in Callers : callers[c].pc = "done" /\ callers[c].attempt = GHRetryCount - 1

\* C22: after any number of get_next_sequence calls on the GitHub file, the
\* history list of each key has at most 10 entries, and they are the last
\* values committed for that key, in the order of the commits.
C22_HistoryKeepsLastTen ==
    \A k \in DOMAIN ghFile.hist :
        LET h == ghFile.hist[k]
            c == Get(ghFile.log, k, <<>>)
            n == Len(h)
            m == Len(c)
        IN  /\ n <= HistoryKeep
            /\ n = IF m <= HistoryKeep THEN m ELSE HistoryKeep
            /\ \A i \in 1..n : h[i] = c[m - n + i]

C22_Witness ==
    /\ phase = "history"
    /\ Len(Get(ghFile.log, akdcah_seq, <<>>)) = HistoryKeep + 1
    /\ Len(ghFile.hist[akdcah_seq]) = HistoryKeep
    /\ ghFile.hist[akdcah_seq][1] = Floor + 2
    /\ ghFile.hist[akdcah_seq][HistoryKeep] = Floor + HistoryKeep + 1
    /\ Len(Get(ghFile.hist, xxdcxx_seq, <<>>)) = 1

\* C23: the hub value enters the key and the number only when the facility
\* code is HYD. For any other facility the key and the number are those of the
\* same call without a hub value; for HYD the hub code is the upper-cased part
\* of the hub value after its last '_', and a hub value that is empty or has no
\* '_' gives no hub code.
C23_HubOnlyForRegional ==
    (phase = "args" /\ last.op = "generate") =>
        LET company_code  == company_codes(Upper(last.req[1]))
            facility_code == facility_codes(last.req[2])
            hub_value     == last.req[3]
            seps          == { i \in 1..Len(hub_value) : hub_value[i] = "_" }
            last_sep      == CHOOSE j \in seps : \A i \in seps : i <= j
            hub_code      == IF seps = {} THEN <<>>
                             ELSE Upper(SubSeq(hub_value, last_sep + 1, Len(hub_value)))
            plain         == company_code \o DC \o facility_code
        IN  /\ facility_code # HYD =>
                 /\ last.key = Lower(plain) \o SeqSuffix
                 /\ last.dc = plain \o Pad6(last.val)
            /\ facility_code = HYD =>
                 /\ last.key = Lower(plain \o hub_code) \o SeqSuffix
                 /\ last.dc = plain \o hub_code \o Pad6(last.val)

C23_Witness ==
    /\ phase = "args" /\ last.op = "generate" /\ last.ok
    /\ last.req = <<AMOLAKCHAND, Hyderabad, hyd_a_bc>>
    /\ last.dc = <<"A","K","D","C","H","Y","D","B","C","0","0","0","3","0","1">>

\* the keys of the requests
RequestKeys == { SequenceName(Prefix(t[1], t[2], t[3])) : t \in Requests }

\* C24: producing one vehicle delivery challan moves the stored counter of its
\* key up by exactly 1.
C24_OneDocumentOneNumber ==
    [][ \A k \in RequestKeys :
          (last'.op = "vehicle_dc" /\ ops' = ops + 1 /\ last'.ok /\ last'.key = k) =>
             FreshCurrentValue(generator, k)' = FreshCurrentValue(generator, k) + 1 ]_vars

\* C25: when generate_dc_number fails inside create_dc_excel, no document is
\* saved.
C25_NoDocumentWithoutNumber ==
    (last.op = "dc_excel" /\ last.nv = 1 /\ ~last.nvOk) =>
        (~last.ok /\ last.dc = <<>>)

C27_InsertedKeyIsReadBack ==
    (ReturnedValue /\ last.backend = "GoogleSheets") =>
        /\ GSFind(sheet, last.key) >= 2
        /\ GSScan(sheet, last.key) = last.val
        /\ last.prev # 0 => last.val = last.prev + 1

\* C28: when two callers on one worksheet have each read it without a row for
\* either of their two different keys and both calls have returned, the
\* worksheet holds a row for each key with the value returned for it.
C28_ConcurrentInsertsKept ==
    ( /\ shared = "GoogleSheets"
      /\ \A c \in Callers : callers[c].pc = "done"
      /\ \A c, d \in Callers :
            /\ c # d => callers[c].key # callers[d].key
            /\ GSFind(callers[c].snap, callers[d].key) = 0 )
    => \A c \in Callers :
          /\ GSFind(sheet, callers[c].key) # 0
          /\ GSScan(sheet, callers[c].key) = callers[c].ret

\* C29: a get_next_sequence call of the single caller on key k leaves the
\* stored value of every other key as it was, on every backend.
C29_OtherKeysUntouched ==
    [][ \A b \in {"GoogleSheets", "Supabase", "GitHub", "Local"}, k \in RequestKeys :
          (last'.nv = 1 /\ last'.backend = b /\ last'.key # k) =>
             FreshCurrentValue(b, k)' = FreshCurrentValue(b, k) ]_vars

\* C30: a get_next_sequence call that ends in failure leaves the counter of its
\* key as it was, in the store and in the memory of the adapter.
C30_FailedCallLeavesCounter ==
    [][ \A b \in {"GoogleSheets", "Supabase", "GitHub", "Local"}, k \in RequestKeys :
          (last'.nv = 1 /\ ~last'.nvOk /\ last'.backend = b /\ last'.key = k) =>
             /\ FreshCurrentValue(b, k)' = FreshCurrentValue(b, k)
             /\ b = "Local" => Get(localSeq', k, Floor) = Get(localSeq, k, Floor) ]_vars

====
